---- MODULE Spec2Model ----
(***************************************************************************)
(* State-machine model of src/main.py (pattern-orchestra): the main        *)
(* thread, the PatternOrchestra thread and one Track thread per allocated  *)
(* MIDI channel, communicating through queue.Queue objects.                *)
(*                                                                         *)
(* Indices of tracks, ports and patterns are 0-based as in the source;     *)
(* queues are sequences whose head is the next item get() returns.         *)
(***************************************************************************)
EXTENDS Integers, Sequences, FiniteSets, TLC

\* ------------------------------------------------------------------ bounds
\* Largest nbOfTracks argument explored by Spec (0 is included: ValueError).
MaxRequested == 2
\* Largest number of files in the pattern directory explored by Spec.
MaxFiles == 2
\* Lists a client of one Track may queue on it in all.
MaxQueued == 2
\* Calls of stop() a client of one Track may make.
MaxStops == 2
\* Patterns a track may dequeue while the user has not yet pressed Enter.
MaxPlays == 1
\* Largest nbOfTracks argument / number of ports explored by AllocSpec.
AllocMaxRequested == 40
MaxPorts == 3

\* ------------------------------------------------------- program constants
\* MIDI channels multiplexed on one port (the literal 16 of __init__).
ChannelsPerPort == 16

\* Longest file name explored by SortSpec, in characters.
MaxNameLen == 2

\* ----------------------------------------------------------------- helpers
Min(a, b) == IF a <= b THEN a ELSE b

Range0(n) == 0 .. (n - 1)

\* Python's None, and a value x that is not None, as queue items.
None == [none |-> TRUE, val |-> <<>>]

Some(x) == [none |-> FALSE, val |-> x]

\* Value of an unset list slot ([None]*len(self._tracks)).
NoneIdx == -1

\* --------------------------------------------------------- pattern library
\* A mido message: meta or channel message, delta time, channel as stored
\* in the file.
Message(type, note, time) ==
    [type |-> type, note |-> note, time |-> time, channel |-> 0]

is_meta(msg) == msg.type = "meta"

\* The content of the file numbered k.  Files differ in their number of
\* sounding messages (2, 1, 0) and carry meta messages with non-zero delta
\* times.
MidiFile(k) ==
    IF k % 3 = 0
    THEN << Message("meta", 0, 1), Message("note", 10 * k + 1, 0),
            Message("note", 10 * k + 2, 2) >>
    ELSE IF k % 3 = 1
    THEN << Message("note", 10 * k + 1, 1), Message("meta", 0, 2) >>
    ELSE << Message("meta", 0, 3) >>

RECURSIVE NotMeta(_)
\* [msg for msg in midi if not msg.is_meta]
NotMeta(msgs) ==
    IF msgs = <<>> THEN <<>>
    ELSE IF is_meta(Head(msgs)) THEN NotMeta(Tail(msgs))
    ELSE <<Head(msgs)>> \o NotMeta(Tail(msgs))

\* for msg in msgList: msg.channel = self._channel
StampChannel(msgs, channel) ==
    [i \in 1 .. Len(msgs) |-> [msgs[i] EXCEPT !.channel = channel]]

\* The list Track.queueMidi puts on the track's queue.
queueMidi(midi, channel) == StampChannel(NotMeta(midi), channel)

\* Mutant: the messages stamped are the library's own objects.
MidiAfterQueue_InPlace(midi, channel) ==
    [i \in 1 .. Len(midi) |->
        IF is_meta(midi[i]) THEN midi[i] ELSE [midi[i] EXCEPT !.channel = channel]]

\* The MidiFile object after Track.queueMidi has iterated over it: iterating
\* a mido.MidiFile yields a fresh copy of each message, so the assignments
\* of lines 41-42 write to the copies and the file object keeps its content.
MidiAfterQueue(midi, channel) == midi

\* ------------------------------------------------------------ natural sort
\* A str is a sequence of one-character strings.
Digits == << "0", "1", "2", "3", "4", "5", "6", "7", "8", "9" >>

\* c.isdigit() for one character
isdigit(c) == \E i \in 1 .. Len(Digits) : Digits[i] = c

DigitValue(c) == (CHOOSE i \in 1 .. Len(Digits) : Digits[i] = c) - 1

\* Code point of a character (the order of str comparison).
Ord(c) ==
    IF isdigit(c) THEN 48 + DigitValue(c)
    ELSE IF c = "/" THEN 47
    ELSE IF c = "P" THEN 80
    ELSE IF c = "Q" THEN 81
    ELSE IF c = "p" THEN 112
    ELSE 113

\* text.lower()
lower(text) ==
    [i \in 1 .. Len(text) |->
        IF text[i] = "P" THEN "p" ELSE IF text[i] = "Q" THEN "q" ELSE text[i]]

\* text.isdigit(): non-empty and digits only
IsDigitText(text) == text # <<>> /\ \A i \in 1 .. Len(text) : isdigit(text[i])

RECURSIVE IntOf(_)
\* int(text) for a run of digits
IntOf(text) ==
    IF text = <<>> THEN 0
    ELSE 10 * IntOf(SubSeq(text, 1, Len(text) - 1)) + DigitValue(text[Len(text)])

RECURSIVE TakeDigits(_)
\* The longest run of digits s starts with: what '[0-9]+' matches at s.
TakeDigits(s) ==
    IF s = <<>> \/ ~isdigit(Head(s)) THEN <<>>
    ELSE << Head(s) >> \o TakeDigits(Tail(s))

RECURSIVE SplitFrom(_, _)
\* _nsre.split(s) with _nsre = re.compile('([0-9]+)'): the text before each
\* run of digits (possibly empty), the run itself, and the text after the
\* last run (possibly empty).  text is the text passed over so far.
SplitFrom(s, text) ==
    IF s = <<>> THEN << text >>
    ELSE IF isdigit(Head(s))
    THEN LET run == TakeDigits(s)
         IN  << text, run >> \o SplitFrom(SubSeq(s, Len(run) + 1, Len(s)), <<>>)
    ELSE SplitFrom(Tail(s), Append(text, Head(s)))

\* Elements of a key: a Python int or a Python str.
PyInt(n) == [kind |-> "int", int |-> n, str |-> <<>>]

PyStr(text) == [kind |-> "str", int |-> 0, str |-> text]

\* Mutant: numeric runs are kept as text.
natural_sort_key_Lexical(s) ==
    LET parts == SplitFrom(s, <<>>)
    IN  [i \in 1 .. Len(parts) |-> PyStr(lower(parts[i]))]

\* [int(text) if text.isdigit() else text.lower() for text in _nsre.split(s)]
natural_sort_key(s) ==
    LET parts == SplitFrom(s, <<>>)
    IN  [i \in 1 .. Len(parts) |->
            IF IsDigitText(parts[i]) THEN PyInt(IntOf(parts[i]))
            ELSE PyStr(lower(parts[i]))]

\* Index of the first position where two sequences differ, 0 if one is a
\* prefix of the other.
FirstDiff(a, b) ==
    LET n == IF Len(a) <= Len(b) THEN Len(a) ELSE Len(b)
        d == {i \in 1 .. n : a[i] # b[i]}
    IN  IF d = {} THEN 0 ELSE CHOOSE i \in d : \A j \in d : i <= j

\* a < b for two str
StrLess(a, b) ==
    LET i == FirstDiff(a, b)
    IN  IF i = 0 THEN Len(a) < Len(b) ELSE Ord(a[i]) < Ord(b[i])

\* ka < kb for two keys (lists): the first unequal elements decide; they
\* raise TypeError when one is an int and the other a str.
KeyRaises(ka, kb) ==
    LET i == FirstDiff(ka, kb) IN i # 0 /\ ka[i].kind # kb[i].kind

KeyLess(ka, kb) ==
    LET i == FirstDiff(ka, kb)
    IN  IF i = 0 THEN Len(ka) < Len(kb)
        ELSE IF ka[i].kind = "int" THEN ka[i].int < kb[i].int
        ELSE StrLess(ka[i].str, kb[i].str)

\* os.path.join(patternsPath, file), the directory being written "/".
JoinPath(file) == << "/" >> \o file

RECURSIVE InsertSorted(_, _)
\* x placed before the first element whose key is greater than its own.
InsertSorted(list, x) ==
    IF list = <<>> THEN << x >>
    ELSE IF KeyLess(natural_sort_key(x), natural_sort_key(Head(list)))
    THEN << x >> \o list
    ELSE << Head(list) >> \o InsertSorted(Tail(list), x)

RECURSIVE sorted(_)
\* sorted(filenames, key=natural_sort_key): a stable sort.
sorted(list) ==
    IF list = <<>> THEN <<>>
    ELSE InsertSorted(sorted(SubSeq(list, 1, Len(list) - 1)), list[Len(list)])

\* A comparison of two of the keys raises TypeError.
SortRaises(list) ==
    \E i, j \in 1 .. Len(list) :
        KeyRaises(natural_sort_key(list[i]), natural_sort_key(list[j]))

\* mido.MidiFile(filename): the file is told by the number its name spells.
MidiFileAt(filename) == MidiFile(IntOf(SelectSeq(filename, isdigit)))

RECURSIVE LoadPatterns(_)
\* [mido.MidiFile(filename) for filename in sortedFilenames]
LoadPatterns(names) ==
    IF names = <<>> THEN <<>>
    ELSE << MidiFileAt(Head(names)) >> \o LoadPatterns(Tail(names))

\* -------------------------------------------------------------- allocation
maxNbOfTracks(nb, nPorts) == Min(nb, nPorts * ChannelsPerPort)

\* Mutant: one port too many when the track count is a multiple of 16.
maxNbOfOutPorts_OffByOne(nTracks) == (nTracks \div ChannelsPerPort) + 1

maxNbOfOutPorts(nTracks) == ((nTracks - 1) \div ChannelsPerPort) + 1

\* if nbOfTracks >= maxNbOfTracks: print("starting only ...")
ShortfallReported(nb, nTracks) == nb >= nTracks

\* Track(self._outports[trackNb//16], trackNb%16)
TrackBinding(trackNb) ==
    [port |-> trackNb \div ChannelsPerPort, channel |-> trackNb % ChannelsPerPort]

\* [mido.open_output(outports[i]) for i in range(maxNbOfOutPorts)]
OpenOutports(n) == [i \in Range0(n) |-> [name |-> i, closed |-> FALSE]]

\* ------------------------------------------------------------------- state
VARIABLES
    nbOfTracks,     \* argument of PatternOrchestra.__init__
    availPorts,     \* len(outports): matching output port names found
    nbFiles,        \* number of files in patternsPath
    listdir,        \* os.listdir(patternsPath): the file names, in any order
    sortedFilenames, \* the local sortedFilenames of __init__
    shortfallPrinted, \* __init__ printed "starting only ... tracks"
    mainPc,         \* position of the main thread
    mainI,          \* loop index of the main thread inside stop()
    orchPc,         \* position of the PatternOrchestra thread
    orchI,          \* loop index of the orchestra thread (beforeStart, run)
    patterns,       \* self._patterns
    outports,       \* self._outports: opened ports, with their closed flag
    tracks,         \* self._tracks: port index and channel of each Track
    trackPc,        \* position of each Track thread
    msgQueue,       \* Track._msgQueue of each track
    msgList,        \* messages of the dequeued list still to be sent
    curPatterns,    \* self._curPatterns
    callbackQueue,  \* self._callbackQueue
    stopCalled,     \* history: Track.stop() has been called on the track
    enqLog,         \* history: lists queued on a track before its stop()
    trace,          \* history: what each track sent / called / reset
    consumed,       \* history: completion events advanceTrack handled
    lastDraw,       \* history: outcome of the last random draw made for a track
    cbBefore,       \* history: completion events put before stop() began
    stopFrom        \* history: orchPc when stop() began

vars == << nbOfTracks, availPorts, nbFiles, listdir, sortedFilenames,
           shortfallPrinted, mainPc, mainI, orchPc, orchI,
           patterns, outports, tracks, trackPc, msgQueue, msgList,
           curPatterns, callbackQueue, stopCalled, enqLog, trace, consumed, lastDraw,
           cbBefore, stopFrom >>

inputVars == << nbOfTracks, availPorts, nbFiles, listdir >>

loadVars == << sortedFilenames, shortfallPrinted >>

mainVars == << mainPc, mainI >>

orchVars == << orchPc, orchI >>

objVars == << patterns, outports, tracks >>

NbTracks == Cardinality(DOMAIN tracks)

TrackIds == DOMAIN tracks

\* A directory listing of n files p0 .. p(n-1), in reverse order.
Listing(n) == [i \in 1 .. n |-> << "p", Digits[n - i + 1] >>]

\* State before PatternOrchestra(...) is evaluated, for given inputs.
InitListing(nb, nPorts, files) ==
    /\ nbOfTracks = nb
    /\ availPorts = nPorts
    /\ nbFiles = Len(files)
    /\ listdir = files
    /\ sortedFilenames = <<>>
    /\ shortfallPrinted = FALSE
    /\ mainPc = "construct"
    /\ mainI = 0
    /\ orchPc = "none"
    /\ orchI = 0
    /\ patterns = <<>>
    /\ outports = <<>>
    /\ tracks = <<>>
    /\ trackPc = <<>>
    /\ msgQueue = <<>>
    /\ msgList = <<>>
    /\ curPatterns = <<>>
    /\ callbackQueue = <<>>
    /\ stopCalled = <<>>
    /\ enqLog = <<>>
    /\ trace = <<>>
    /\ consumed = <<>>
    /\ lastDraw = <<>>
    /\ cbBefore = <<>>
    /\ stopFrom = "none"

InitWith(nb, nPorts, nFiles) == InitListing(nb, nPorts, Listing(nFiles))

\* With fewer than 17 tracks requested only the first port is ever used, so
\* Spec distinguishes no matching port from one.
Init ==
    \E nb \in 0 .. MaxRequested, nPorts \in BOOLEAN, nFiles \in 0 .. MaxFiles :
        InitWith(nb, IF nPorts THEN 1 ELSE 0, nFiles)

\* ------------------------------------------- PatternOrchestra.__init__
Construct ==
    /\ mainPc = "construct"
    /\ IF \/ nbOfTracks < 1
          \/ SortRaises([i \in 1 .. Len(listdir) |-> JoinPath(listdir[i])])
          \/ listdir = <<>>
       THEN \* ValueError (TypeError if two keys do not compare): the main
            \* thread dies with the exception
            /\ mainPc' = "error"
            /\ UNCHANGED << inputVars, loadVars, mainI, orchVars,
                            objVars, trackPc, msgQueue, msgList, curPatterns,
                            callbackQueue, stopCalled, enqLog, trace, consumed,
                            lastDraw, cbBefore, stopFrom >>
       ELSE LET nTracks == maxNbOfTracks(nbOfTracks, availPorts)
                ids == Range0(nTracks)
                filenames == [i \in 1 .. Len(listdir) |-> JoinPath(listdir[i])]
            IN  /\ \E sortedNames \in {sorted(filenames)} :
                       /\ sortedFilenames' = sortedNames
                       /\ \E loaded \in {LoadPatterns(sortedNames)} :
                              patterns' = loaded
                /\ shortfallPrinted' = ShortfallReported(nbOfTracks, nTracks)
                /\ outports' = OpenOutports(maxNbOfOutPorts(nTracks))
                /\ tracks' = [t \in ids |-> TrackBinding(t)]
                /\ trackPc' = [t \in ids |-> "unstarted"]
                /\ msgQueue' = [t \in ids |-> <<>>]
                /\ msgList' = [t \in ids |-> <<>>]
                /\ curPatterns' = [t \in ids |-> NoneIdx]
                /\ stopCalled' = [t \in ids |-> FALSE]
                /\ enqLog' = [t \in ids |-> <<>>]
                /\ trace' = [t \in ids |-> <<>>]
                /\ consumed' = [t \in ids |-> 0]
                /\ lastDraw' = [t \in ids |-> "none"]
                /\ cbBefore' = [t \in ids |-> 0]
                /\ mainPc' = "start"
                /\ orchPc' = "init"
                /\ UNCHANGED << inputVars, mainI, orchI, callbackQueue, stopFrom >>

\* Construction alone, for requests of up to AllocMaxRequested tracks.
AllocInit ==
    \E nb \in 0 .. AllocMaxRequested, nPorts \in 0 .. MaxPorts, nFiles \in 0 .. 1 :
        InitWith(nb, nPorts, nFiles)

AllocNext == Construct

AllocSpec == AllocInit /\ [][AllocNext]_vars


\* Construction alone, for directories of two files with names of up to
\* MaxNameLen characters, of three files with shorter names, and for the
\* directory p2, p10, p1.
SortChars == {"0", "1", "2", "p", "Q"}

NamesUpTo(n) == UNION {[1 .. k -> SortChars] : k \in 1 .. n}

SortInit ==
    \/ \E a, b \in NamesUpTo(MaxNameLen) :
          a # b /\ InitListing(1, 1, << a, b >>)
    \/ \E a, b, c \in NamesUpTo(MaxNameLen - 1) :
          a # b /\ a # c /\ b # c /\ InitListing(1, 1, << a, b, c >>)
    \/ InitListing(1, 1, << << "p", "2" >>, << "p", "1", "0" >>, << "p", "1" >> >>)

SortNext == Construct

SortSpec == SortInit /\ [][SortNext]_vars


\* --------------------------------------------------------------- Track.run
\* History entries: a message sent, the callback invoked, the port reset.
Sent(msg) == [kind |-> "send", msg |-> msg]

Called == [kind |-> "callback", msg |-> Message("none", 0, 0)]

ResetDone == [kind |-> "reset", msg |-> Message("none", 0, 0)]

PortClosed(t) == outports[tracks[t].port].closed

\* Mutant: the queue hands out its newest item first (a LifoQueue).
TrackGet_Lifo(t) ==
    /\ trackPc[t] = "get"
    /\ msgQueue[t] # <<>>
    /\ LET item == msgQueue[t][Len(msgQueue[t])]
       IN  /\ item.none \/ mainPc # "input" \/ Len(enqLog[t]) <= MaxPlays
           /\ msgQueue' = [msgQueue EXCEPT ![t] = SubSeq(@, 1, Len(@) - 1)]
           /\ msgList' = [msgList EXCEPT ![t] = item.val]
           /\ trackPc' = [trackPc EXCEPT ![t] =
                            IF item.none THEN "reset"
                            ELSE IF item.val = <<>> THEN "callback"
                            ELSE "play"]
    /\ UNCHANGED << inputVars, loadVars, mainVars, orchVars, objVars, curPatterns,
                    callbackQueue, stopCalled, enqLog, trace, consumed, lastDraw,
                    cbBefore, stopFrom >>

\* msgList = self._msgQueue.get(); if msgList is None: ...; for msg in msgList
TrackGet(t) ==
    /\ trackPc[t] = "get"
    /\ msgQueue[t] # <<>>
    /\ LET item == Head(msgQueue[t])
       IN  /\ item.none \/ mainPc # "input" \/ Len(enqLog[t]) <= MaxPlays
           /\ msgQueue' = [msgQueue EXCEPT ![t] = Tail(@)]
           /\ msgList' = [msgList EXCEPT ![t] = item.val]
           /\ trackPc' = [trackPc EXCEPT ![t] =
                            IF item.none THEN "reset"
                            ELSE IF item.val = <<>> THEN "callback"
                            ELSE "play"]
    /\ UNCHANGED << inputVars, loadVars, mainVars, orchVars, objVars, curPatterns,
                    callbackQueue, stopCalled, enqLog, trace, consumed, lastDraw,
                    cbBefore, stopFrom >>

\* Mutant: the callback is reached after the first message of a list, the
\* remaining messages being dropped.
TrackSend_EarlyCallback(t) ==
    /\ trackPc[t] = "play"
    /\ trace' = [trace EXCEPT ![t] = Append(@, Sent(Head(msgList[t])))]
    /\ msgList' = [msgList EXCEPT ![t] = <<>>]
    /\ trackPc' = [trackPc EXCEPT ![t] = "callback"]
    /\ UNCHANGED << inputVars, loadVars, mainVars, orchVars, objVars, msgQueue,
                    curPatterns, callbackQueue, stopCalled, enqLog, consumed, lastDraw,
                    cbBefore, stopFrom >>

\* time.sleep(msg.time); self._outport.send(msg)
\* (send() on a closed port raises: the thread dies with the exception)
TrackSend(t) ==
    /\ trackPc[t] = "play"
    /\ IF PortClosed(t)
       THEN /\ trackPc' = [trackPc EXCEPT ![t] = "failed"]
            /\ UNCHANGED << msgList, trace >>
       ELSE /\ trace' = [trace EXCEPT ![t] = Append(@, Sent(Head(msgList[t])))]
            /\ msgList' = [msgList EXCEPT ![t] = Tail(@)]
            /\ trackPc' = [trackPc EXCEPT ![t] =
                             IF Tail(msgList[t]) = <<>> THEN "callback" ELSE "play"]
    /\ UNCHANGED << inputVars, loadVars, mainVars, orchVars, objVars, msgQueue,
                    curPatterns, callbackQueue, stopCalled, enqLog, consumed, lastDraw,
                    cbBefore, stopFrom >>

\* Mutant: an I/O error in one track ends every Track thread.
TrackSendFail_KillsAll(t) ==
    /\ trackPc[t] = "play"
    /\ trackPc' = [u \in DOMAIN trackPc |-> "failed"]
    /\ UNCHANGED << inputVars, loadVars, mainVars, orchVars, objVars, msgQueue, msgList,
                    curPatterns, callbackQueue, stopCalled, enqLog, trace,
                    consumed, lastDraw, cbBefore, stopFrom >>

\* self._outport.send(msg) raises an I/O error: the exception leaves run()
\* and this thread ends.
TrackSendFail(t) ==
    /\ trackPc[t] = "play"
    /\ trackPc' = [trackPc EXCEPT ![t] = "failed"]
    /\ UNCHANGED << inputVars, loadVars, mainVars, orchVars, objVars, msgQueue, msgList,
                    curPatterns, callbackQueue, stopCalled, enqLog, trace,
                    consumed, lastDraw, cbBefore, stopFrom >>

\* Mutant: the completion event is put on the shared queue twice.
TrackCallback_Twice(t) ==
    /\ trackPc[t] = "callback"
    /\ callbackQueue' = Append(Append(callbackQueue, Some(<<t>>)), Some(<<t>>))
    /\ trace' = [trace EXCEPT ![t] = Append(@, Called)]
    /\ cbBefore' = [cbBefore EXCEPT ![t] = IF stopFrom = "none" THEN @ + 1 ELSE @]
    /\ trackPc' = [trackPc EXCEPT ![t] = "get"]
    /\ UNCHANGED << inputVars, loadVars, mainVars, orchVars, objVars, msgQueue, msgList,
                    curPatterns, stopCalled, enqLog, consumed, lastDraw, stopFrom >>

\* if self._callback: self._callback()
\* with the callback of __init__: self._callbackQueue.put([trackNb])
TrackCallback(t) ==
    /\ trackPc[t] = "callback"
    /\ callbackQueue' = Append(callbackQueue, Some(<<t>>))
    /\ trace' = [trace EXCEPT ![t] = Append(@, Called)]
    /\ cbBefore' = [cbBefore EXCEPT ![t] = IF stopFrom = "none" THEN @ + 1 ELSE @]
    /\ trackPc' = [trackPc EXCEPT ![t] = "get"]
    /\ UNCHANGED << inputVars, loadVars, mainVars, orchVars, objVars, msgQueue, msgList,
                    curPatterns, stopCalled, enqLog, consumed, lastDraw, stopFrom >>

\* Mutant: after the reset the loop goes on instead of returning.
TrackReset_Continue(t) ==
    /\ trackPc[t] = "reset"
    /\ trace' = [trace EXCEPT ![t] = Append(@, ResetDone)]
    /\ trackPc' = [trackPc EXCEPT ![t] = "get"]
    /\ UNCHANGED << inputVars, loadVars, mainVars, orchVars, objVars, msgQueue, msgList,
                    curPatterns, callbackQueue, stopCalled, enqLog, consumed,
                    lastDraw, cbBefore, stopFrom >>

\* self._outport.reset(); return
TrackReset(t) ==
    /\ trackPc[t] = "reset"
    /\ IF PortClosed(t)
       THEN /\ trackPc' = [trackPc EXCEPT ![t] = "failed"]
            /\ UNCHANGED trace
       ELSE /\ trace' = [trace EXCEPT ![t] = Append(@, ResetDone)]
            /\ trackPc' = [trackPc EXCEPT ![t] = "done"]
    /\ UNCHANGED << inputVars, loadVars, mainVars, orchVars, objVars, msgQueue, msgList,
                    curPatterns, callbackQueue, stopCalled, enqLog, consumed, lastDraw,
                    cbBefore, stopFrom >>

Terminated(t) == trackPc[t] \in {"done", "failed"}

\* ------------------------------------------------- PatternOrchestra methods
\* Mutant: no range check, self._patterns[patternNb] raises IndexError.
queuePatternOnTrack_NoGuard(patternNb, trackNb) ==
    IF trackNb \notin DOMAIN curPatterns
    THEN [raised |-> TRUE, cur |-> curPatterns, queues |-> msgQueue,
          lib |-> patterns]
    ELSE IF patternNb >= Len(patterns)
    THEN [raised |-> TRUE,
          cur |-> [curPatterns EXCEPT ![trackNb] = patternNb],
          queues |-> msgQueue, lib |-> patterns]
    ELSE [raised |-> FALSE,
          cur |-> [curPatterns EXCEPT ![trackNb] = patternNb],
          queues |-> [msgQueue EXCEPT ![trackNb] =
                        Append(@, Some(queueMidi(patterns[patternNb + 1],
                                                 tracks[trackNb].channel)))],
          lib |-> [patterns EXCEPT ![patternNb + 1] =
                     MidiAfterQueue(@, tracks[trackNb].channel)]]

\* Mutant: the library wraps around instead of running dry.
queuePatternOnTrack_Wrap(patternNb, trackNb) ==
    IF trackNb \notin DOMAIN curPatterns
    THEN [raised |-> TRUE, cur |-> curPatterns, queues |-> msgQueue,
          lib |-> patterns]
    ELSE [raised |-> FALSE,
          cur |-> [curPatterns EXCEPT ![trackNb] = patternNb],
          queues |-> [msgQueue EXCEPT ![trackNb] =
                        Append(@, Some(queueMidi(patterns[(patternNb % Len(patterns)) + 1],
                                                 tracks[trackNb].channel)))],
          lib |-> patterns]

\* Outcome of queuePatternOnTrack: raised (IndexError), the new
\* self._curPatterns and the new track queues.
queuePatternOnTrack(patternNb, trackNb) ==
    IF trackNb \notin DOMAIN curPatterns
    THEN [raised |-> TRUE, cur |-> curPatterns, queues |-> msgQueue,
          lib |-> patterns]
    ELSE IF patternNb >= Len(patterns)
    THEN [raised |-> FALSE,
          cur |-> [curPatterns EXCEPT ![trackNb] = patternNb],
          queues |-> msgQueue, lib |-> patterns]
    ELSE [raised |-> FALSE,
          cur |-> [curPatterns EXCEPT ![trackNb] = patternNb],
          queues |-> [msgQueue EXCEPT ![trackNb] =
                        Append(@, Some(queueMidi(patterns[patternNb + 1],
                                                 tracks[trackNb].channel)))],
          lib |-> [patterns EXCEPT ![patternNb + 1] =
                     MidiAfterQueue(@, tracks[trackNb].channel)]]

queueNeighbourPatternOnTrack(stepSize, trackNb) ==
    queuePatternOnTrack(curPatterns[trackNb] + stepSize, trackNb)

\* Mutant: the pattern is queued twice.
repeat_Twice(trackNb) ==
    LET r == queueNeighbourPatternOnTrack(0, trackNb)
    IN  IF r.queues = msgQueue THEN r
        ELSE [r EXCEPT !.queues[trackNb] = Append(@, @[Len(@)])]

repeat(trackNb) == queueNeighbourPatternOnTrack(0, trackNb)

next(trackNb) == queueNeighbourPatternOnTrack(1, trackNb)

\* Mutant: track 0 is advanced like every other track.
advanceTrack_NoReference(trackNb, draw) ==
    IF draw THEN next(trackNb) ELSE repeat(trackNb)

\* Mutant: the comparison with stepChance is inverted.
advanceTrack_Inverted(trackNb, draw) ==
    IF trackNb = 0 THEN repeat(trackNb)
    ELSE IF draw THEN repeat(trackNb)
    ELSE next(trackNb)

\* draw: random.random() < stepChance
advanceTrack(trackNb, draw) ==
    IF trackNb = 0 THEN repeat(trackNb)
    ELSE IF draw THEN next(trackNb)
    ELSE repeat(trackNb)

\* What advanceTrack drew for the track: nothing for track 0 (the branch of
\* line 131 returns before random.random() is evaluated), else whether the
\* value was below stepChance.
DrawOutcome(trackNb, draw) ==
    IF trackNb = 0 THEN "none"
    ELSE IF draw THEN "below"
    ELSE "notBelow"

\* Mutant: every track is seeded with pattern 0.
SeedIndex_AllZero(i) == 0

\* The pattern index beforeStart queues on track i.
SeedIndex(i) == IF i = 0 THEN 0 ELSE 1

\* The lists queued on a track before stop() was called on it.
LogQueued(res) ==
    [t \in DOMAIN enqLog |->
        IF Len(res.queues[t]) > Len(msgQueue[t]) /\ ~stopCalled[t]
        THEN Append(enqLog[t], res.queues[t][Len(res.queues[t])].val)
        ELSE enqLog[t]]

\* One call of queuePatternOnTrack inside beforeStart.
OrchBeforeStart ==
    /\ orchPc = "beforeStart"
    /\ LET res == queuePatternOnTrack(SeedIndex(orchI), orchI)
       IN  IF res.raised
           THEN /\ orchPc' = "crashed"
                /\ curPatterns' = res.cur
                /\ UNCHANGED << orchI, msgQueue, enqLog, patterns >>
           ELSE /\ curPatterns' = res.cur
                /\ msgQueue' = res.queues
                /\ patterns' = res.lib
                /\ enqLog' = LogQueued(res)
                /\ IF orchI + 1 < NbTracks
                   THEN orchI' = orchI + 1 /\ orchPc' = "beforeStart"
                   ELSE orchI' = 0 /\ orchPc' = "startTracks"
    /\ UNCHANGED << inputVars, loadVars, mainVars, outports, tracks, trackPc, msgList,
                    callbackQueue, stopCalled, trace, consumed, lastDraw, cbBefore,
                    stopFrom >>

\* for track in self._tracks: track.start()
OrchStartTrack ==
    /\ orchPc = "startTracks"
    /\ trackPc' = [trackPc EXCEPT ![orchI] = "get"]
    /\ IF orchI + 1 < NbTracks
       THEN orchI' = orchI + 1 /\ orchPc' = "startTracks"
       ELSE orchI' = 0 /\ orchPc' = "loop"
    /\ UNCHANGED << inputVars, loadVars, mainVars, objVars, msgQueue, msgList,
                    curPatterns, callbackQueue, stopCalled, enqLog, trace,
                    consumed, lastDraw, cbBefore, stopFrom >>

\* args = self._callbackQueue.get(); if args is None: return;
\* self.advanceTrack(*args)
OrchLoop ==
    /\ orchPc = "loop"
    /\ callbackQueue # <<>>
    /\ callbackQueue' = Tail(callbackQueue)
    /\ LET args == Head(callbackQueue)
       IN  IF args.none
           THEN /\ orchPc' = "done"
                /\ UNCHANGED << curPatterns, msgQueue, enqLog, consumed,
                                lastDraw, patterns >>
           ELSE \E draw \in BOOLEAN :
                  LET trackNb == args.val[1]
                      res == advanceTrack(trackNb, draw)
                  IN  IF res.raised
                      THEN /\ orchPc' = "crashed"
                           /\ curPatterns' = res.cur
                           /\ UNCHANGED << msgQueue, enqLog, consumed,
                                           lastDraw, patterns >>
                      ELSE /\ orchPc' = "loop"
                           /\ curPatterns' = res.cur
                           /\ msgQueue' = res.queues
                           /\ patterns' = res.lib
                           /\ enqLog' = LogQueued(res)
                           /\ consumed' = [consumed EXCEPT ![trackNb] = @ + 1]
                           /\ lastDraw' = [lastDraw EXCEPT ![trackNb] =
                                             DrawOutcome(trackNb, draw)]
    /\ UNCHANGED << inputVars, loadVars, mainVars, orchI, outports, tracks, trackPc,
                    msgList, stopCalled, trace, cbBefore, stopFrom >>

\* ------------------------------------------------------------- main thread
\* orchestra.start()
MainStart ==
    /\ mainPc = "start"
    /\ mainPc' = "input"
    /\ orchPc' = "beforeStart"
    /\ UNCHANGED << inputVars, loadVars, mainI, orchI, objVars, trackPc, msgQueue,
                    msgList, curPatterns, callbackQueue, stopCalled, enqLog,
                    trace, consumed, lastDraw, cbBefore, stopFrom >>

\* Position of stop() at index i of its loop over the tracks to stop.
AtStopTracks(i) ==
    IF i < NbTracks THEN << "stopTracks", i >>
    ELSE IF 0 < NbTracks THEN << "joinTracks", 0 >>
    ELSE IF 0 < Cardinality(DOMAIN outports) THEN << "closePorts", 0 >>
    ELSE << "joinOrch", 0 >>

\* Position of stop() at index i of its loop over the tracks to join.
AtJoinTracks(i) ==
    IF i < NbTracks THEN << "joinTracks", i >>
    ELSE IF 0 < Cardinality(DOMAIN outports) THEN << "closePorts", 0 >>
    ELSE << "joinOrch", 0 >>

\* Position of stop() at index i of its loop over the ports to close.
AtClosePorts(i) ==
    IF i < Cardinality(DOMAIN outports) THEN << "closePorts", i >>
    ELSE << "joinOrch", 0 >>

\* input() returns; stop(): self._callbackQueue.put(None)
MainStopRequest ==
    /\ mainPc = "input"
    /\ callbackQueue' = Append(callbackQueue, None)
    /\ stopFrom' = orchPc
    /\ mainPc' = AtStopTracks(0)[1]
    /\ mainI' = AtStopTracks(0)[2]
    /\ UNCHANGED << inputVars, loadVars, orchVars, objVars, trackPc, msgQueue, msgList,
                    curPatterns, stopCalled, enqLog, trace, consumed, lastDraw, cbBefore >>

\* Mutant: stop() empties the queue before putting the sentinel.
MainStopTrack_Purge ==
    /\ mainPc = "stopTracks"
    /\ msgQueue' = [msgQueue EXCEPT ![mainI] = << None >>]
    /\ stopCalled' = [stopCalled EXCEPT ![mainI] = TRUE]
    /\ mainPc' = AtStopTracks(mainI + 1)[1]
    /\ mainI' = AtStopTracks(mainI + 1)[2]
    /\ UNCHANGED << inputVars, loadVars, orchVars, objVars, trackPc, msgList,
                    curPatterns, callbackQueue, enqLog, trace, consumed,
                    lastDraw, cbBefore, stopFrom >>

\* for track in self._tracks: track.stop()
MainStopTrack ==
    /\ mainPc = "stopTracks"
    /\ msgQueue' = [msgQueue EXCEPT ![mainI] = Append(@, None)]
    /\ stopCalled' = [stopCalled EXCEPT ![mainI] = TRUE]
    /\ mainPc' = AtStopTracks(mainI + 1)[1]
    /\ mainI' = AtStopTracks(mainI + 1)[2]
    /\ UNCHANGED << inputVars, loadVars, orchVars, objVars, trackPc, msgList,
                    curPatterns, callbackQueue, enqLog, trace, consumed, lastDraw,
                    cbBefore, stopFrom >>

\* Mutant: join() returns without waiting for the thread to end.
MainJoinTrack_NoWait ==
    /\ mainPc = "joinTracks"
    /\ \/ /\ trackPc[mainI] = "unstarted"
          /\ mainPc' = "error"
          /\ mainI' = mainI
       \/ /\ trackPc[mainI] # "unstarted"
          /\ mainPc' = AtJoinTracks(mainI + 1)[1]
          /\ mainI' = AtJoinTracks(mainI + 1)[2]
    /\ UNCHANGED << inputVars, loadVars, orchVars, objVars, trackPc, msgQueue, msgList,
                    curPatterns, callbackQueue, stopCalled, enqLog, trace,
                    consumed, lastDraw, cbBefore, stopFrom >>

\* for track in self._tracks: track.join()
\* (join() of a thread that was not started raises RuntimeError)
MainJoinTrack ==
    /\ mainPc = "joinTracks"
    /\ \/ /\ trackPc[mainI] = "unstarted"
          /\ mainPc' = "error"
          /\ mainI' = mainI
       \/ /\ Terminated(mainI)
          /\ mainPc' = AtJoinTracks(mainI + 1)[1]
          /\ mainI' = AtJoinTracks(mainI + 1)[2]
    /\ UNCHANGED << inputVars, loadVars, orchVars, objVars, trackPc, msgQueue, msgList,
                    curPatterns, callbackQueue, stopCalled, enqLog, trace,
                    consumed, lastDraw, cbBefore, stopFrom >>

\* for port in self._outports: port.close()
MainClosePort ==
    /\ mainPc = "closePorts"
    /\ outports' = [outports EXCEPT ![mainI].closed = TRUE]
    /\ mainPc' = AtClosePorts(mainI + 1)[1]
    /\ mainI' = AtClosePorts(mainI + 1)[2]
    /\ UNCHANGED << inputVars, loadVars, orchVars, patterns, tracks, trackPc, msgQueue,
                    msgList, curPatterns, callbackQueue, stopCalled, enqLog,
                    trace, consumed, lastDraw, cbBefore, stopFrom >>

\* orchestra.join()
MainJoinOrch ==
    /\ mainPc = "joinOrch"
    /\ orchPc \in {"done", "crashed"}
    /\ mainPc' = "done"
    /\ UNCHANGED << inputVars, loadVars, mainI, orchVars, objVars, trackPc, msgQueue,
                    msgList, curPatterns, callbackQueue, stopCalled, enqLog,
                    trace, consumed, lastDraw, cbBefore, stopFrom >>

\* ---------------------------------------------------------- specifications
TrackStep(t) ==
    \/ TrackGet(t)
    \/ TrackSend(t)
    \/ TrackCallback(t)
    \/ TrackReset(t)

OrchStep == OrchBeforeStart \/ OrchStartTrack \/ OrchLoop

MainStopStep == MainStopTrack \/ MainJoinTrack \/ MainClosePort \/ MainJoinOrch

Next ==
    \/ Construct
    \/ MainStart
    \/ MainStopRequest
    \/ MainStopTrack
    \/ MainJoinTrack
    \/ MainClosePort
    \/ MainJoinOrch
    \/ OrchBeforeStart
    \/ OrchStartTrack
    \/ OrchLoop
    \/ \E t \in TrackIds : TrackGet(t)
    \/ \E t \in TrackIds : TrackSend(t)
    \/ \E t \in TrackIds : TrackSendFail(t)
    \/ \E t \in TrackIds : TrackCallback(t)
    \/ \E t \in TrackIds : TrackReset(t)

Spec == Init /\ [][Next]_vars

\* Threads that can run do run: every thread is an OS thread, and the main
\* thread keeps executing stop() once input() has returned.  When the user
\* presses Enter, and whether a send raises, is left to the environment.
Fairness ==
    /\ WF_vars(Construct \/ MainStart)
    /\ WF_vars(MainStopStep)
    /\ WF_vars(OrchStep)
    /\ \A t \in 0 .. MaxRequested : WF_vars(t \in TrackIds /\ TrackStep(t))

FairSpec == Init /\ [][Next]_vars /\ Fairness


\* ------------------------------------------------- one Track and its client
\* The lists (not the stop sentinels) waiting on a queue, in order.
RECURSIVE ListsIn(_)
ListsIn(q) ==
    IF q = <<>> THEN <<>>
    ELSE IF Head(q).none THEN ListsIn(Tail(q))
    ELSE << Head(q).val >> \o ListsIn(Tail(q))

\* The Track class driven through its public methods by an arbitrary client
\* instead of by PatternOrchestra.run: start(), queueMidi(midi) and stop()
\* in any order on one of the constructed tracks.
Untouched(u) == trackPc[u] = "unstarted" /\ msgQueue[u] = <<>>

ClientOf(t) == mainPc = "start" /\ \A u \in TrackIds \ {t} : Untouched(u)

\* track.start()
ClientStart(t) ==
    /\ ClientOf(t)
    /\ trackPc[t] = "unstarted"
    /\ trackPc' = [trackPc EXCEPT ![t] = "get"]
    /\ UNCHANGED << inputVars, loadVars, mainVars, orchVars, objVars, msgQueue, msgList,
                    curPatterns, callbackQueue, stopCalled, enqLog, trace,
                    consumed, lastDraw, cbBefore, stopFrom >>

\* Lists queued on t after its first stop(): the track ends at the first
\* sentinel, so they all still wait on the queue.
RECURSIVE AfterFirstNone(_)
AfterFirstNone(q) ==
    IF q = <<>> THEN <<>>
    ELSE IF Head(q).none THEN Tail(q)
    ELSE AfterFirstNone(Tail(q))

SentinelTaken(t) == trackPc[t] \in {"reset", "done"}

NbQueued(t) ==
    Len(enqLog[t])
    + Len(ListsIn(IF SentinelTaken(t) THEN msgQueue[t] ELSE AfterFirstNone(msgQueue[t])))

NbStops(t) ==
    Cardinality({i \in 1 .. Len(msgQueue[t]) : msgQueue[t][i].none})
    + (IF SentinelTaken(t) THEN 1 ELSE 0)

\* track.queueMidi(self._patterns[k])
ClientQueueMidi(t, k) ==
    /\ ClientOf(t)
    /\ NbQueued(t) < MaxQueued
    /\ LET list == queueMidi(patterns[k + 1], tracks[t].channel)
       IN  /\ msgQueue' = [msgQueue EXCEPT ![t] = Append(@, Some(list))]
           /\ enqLog' = [enqLog EXCEPT ![t] =
                            IF stopCalled[t] THEN @ ELSE Append(@, list)]
           /\ patterns' = [patterns EXCEPT ![k + 1] =
                             MidiAfterQueue(@, tracks[t].channel)]
    /\ UNCHANGED << inputVars, loadVars, mainVars, orchVars, outports, tracks, trackPc, msgList,
                    curPatterns, callbackQueue, stopCalled, trace, consumed, lastDraw,
                    cbBefore, stopFrom >>

\* track.stop()
ClientStop(t) ==
    /\ ClientOf(t)
    /\ NbStops(t) < MaxStops
    /\ msgQueue' = [msgQueue EXCEPT ![t] = Append(@, None)]
    /\ stopCalled' = [stopCalled EXCEPT ![t] = TRUE]
    /\ UNCHANGED << inputVars, loadVars, mainVars, orchVars, objVars, trackPc, msgList,
                    curPatterns, callbackQueue, enqLog, trace, consumed, lastDraw,
                    cbBefore, stopFrom >>

TrackNext ==
    \/ Construct
    \/ \E t \in TrackIds : ClientStart(t)
    \/ \E t \in TrackIds : \E k \in Range0(Len(patterns)) : ClientQueueMidi(t, k)
    \/ \E t \in TrackIds : ClientStop(t)
    \/ \E t \in TrackIds : TrackGet(t)
    \/ \E t \in TrackIds : TrackSend(t)
    \/ \E t \in TrackIds : TrackSendFail(t)
    \/ \E t \in TrackIds : TrackCallback(t)
    \/ \E t \in TrackIds : TrackReset(t)

TrackSpec == Init /\ [][TrackNext]_vars

\* ------------------------------------------ several Tracks and their client
\* The Track objects of one orchestra driven through start() and queueMidi()
\* by a client that may hand the same MidiFile of the library to several of
\* them; at most MaxQueued lists are queued in all.
RECURSIVE NbQueuedUpTo(_)
NbQueuedUpTo(n) == IF n = 0 THEN 0 ELSE NbQueued(n - 1) + NbQueuedUpTo(n - 1)

\* track.start()
SharedStart(t) ==
    /\ mainPc = "start"
    /\ trackPc[t] = "unstarted"
    /\ trackPc' = [trackPc EXCEPT ![t] = "get"]
    /\ UNCHANGED << inputVars, loadVars, mainVars, orchVars, objVars, msgQueue, msgList,
                    curPatterns, callbackQueue, stopCalled, enqLog, trace,
                    consumed, lastDraw, cbBefore, stopFrom >>

\* track.queueMidi(self._patterns[k])
SharedQueueMidi(t, k) ==
    /\ mainPc = "start"
    /\ NbQueuedUpTo(NbTracks) < MaxQueued
    /\ LET list == queueMidi(patterns[k + 1], tracks[t].channel)
       IN  /\ msgQueue' = [msgQueue EXCEPT ![t] = Append(@, Some(list))]
           /\ enqLog' = [enqLog EXCEPT ![t] = Append(@, list)]
           /\ patterns' = [patterns EXCEPT ![k + 1] =
                             MidiAfterQueue(@, tracks[t].channel)]
    /\ UNCHANGED << inputVars, loadVars, mainVars, orchVars, outports, tracks, trackPc,
                    msgList, curPatterns, callbackQueue, stopCalled, trace,
                    consumed, lastDraw, cbBefore, stopFrom >>

SharedNext ==
    \/ Construct
    \/ \E t \in TrackIds : SharedStart(t)
    \/ \E t \in TrackIds : \E k \in Range0(Len(patterns)) : SharedQueueMidi(t, k)
    \/ \E t \in TrackIds : TrackGet(t)
    \/ \E t \in TrackIds : TrackSend(t)
    \/ \E t \in TrackIds : TrackCallback(t)

SharedSpec == Init /\ [][SharedNext]_vars

\* ------------------------------------------------------------------ claims
Constructed == orchPc # "none"

\* Least c with c * ChannelsPerPort >= n.
CeilPorts(n) ==
    CHOOSE c \in 0 .. n :
        /\ c * ChannelsPerPort >= n
        /\ c = 0 \/ (c - 1) * ChannelsPerPort < n

\* C1: once the orchestra is constructed for R >= 1 requested tracks and P
\* available ports, min(R, 16*P) tracks exist, track i is bound to port
\* i div 16 and channel i mod 16, no two tracks share a (port, channel) pair,
\* and exactly the first ceil(actual/16) ports are opened, each once.
C1_Allocation ==
    Constructed =>
        LET actual == Min(nbOfTracks, ChannelsPerPort * availPorts)
        IN  /\ DOMAIN tracks = 0 .. (actual - 1)
            /\ \A i \in DOMAIN tracks :
                  /\ tracks[i].port = i \div ChannelsPerPort
                  /\ tracks[i].channel = i % ChannelsPerPort
                  /\ tracks[i].port \in DOMAIN outports
            /\ \A i, j \in DOMAIN tracks :
                  i # j => << tracks[i].port, tracks[i].channel >>
                            # << tracks[j].port, tracks[j].channel >>
            /\ DOMAIN outports = 0 .. (CeilPorts(actual) - 1)
            /\ \A p \in DOMAIN outports : outports[p].name = p /\ ~outports[p].closed

\* C1 witness: 40 tracks requested on 2 ports: 32 tracks on 2 opened ports.
C1_Witness ==
    /\ Constructed
    /\ nbOfTracks = 40
    /\ availPorts = 2
    /\ NbTracks = 32
    /\ Cardinality(DOMAIN outports) = 2

\* C2 (as claimed): with no available port and R > 0, construction fails
\* before any orchestra exists; no orchestra with zero tracks is produced.
C2_NoPortsFailsAtConstruction ==
    (mainPc # "construct" /\ availPorts = 0 /\ nbOfTracks > 0) =>
        (mainPc = "error" /\ ~Constructed)


\* -------------------------------------------------- histories, as sequences
RECURSIVE Flatten(_)
\* The messages of a sequence of lists, in order.
Flatten(lists) ==
    IF lists = <<>> THEN <<>> ELSE Head(lists) \o Flatten(Tail(lists))

RECURSIVE ExpectedTrace(_)
\* What a track that plays the given lists to completion does: every message
\* of a list in stored order, then one callback, then the next list.
ExpectedTrace(lists) ==
    IF lists = <<>> THEN <<>>
    ELSE [i \in 1 .. Len(Head(lists)) |-> Sent(Head(lists)[i])]
         \o << Called >> \o ExpectedTrace(Tail(lists))

IsPrefix(a, b) == Len(a) <= Len(b) /\ a = SubSeq(b, 1, Len(a))

Count(seq, x) == Cardinality({i \in 1 .. Len(seq) : seq[i] = x})

RECURSIVE SendsOf(_)
\* The messages a track sent, in order.
SendsOf(tr) ==
    IF tr = <<>> THEN <<>>
    ELSE IF Head(tr).kind = "send" THEN << Head(tr).msg >> \o SendsOf(Tail(tr))
    ELSE SendsOf(Tail(tr))

\* Completion events a track has produced.
Produced(t) == Count(trace[t], Called)

\* The trace without its final reset, if any.
BeforeReset(tr) ==
    IF tr # <<>> /\ tr[Len(tr)] = ResetDone THEN SubSeq(tr, 1, Len(tr) - 1) ELSE tr

\* C4: the trace of a track is a prefix of "messages of list 1 in stored
\* order, callback, messages of list 2, callback, ...", followed by the reset
\* once the stop sentinel has been dequeued; nothing follows the reset, and a
\* callback appears only right after the last message of its list.
C4_TraceOrdered ==
    \A t \in TrackIds :
        /\ IsPrefix(BeforeReset(trace[t]), ExpectedTrace(enqLog[t]))
        /\ (trackPc[t] = "done") <=> (trace[t] # BeforeReset(trace[t]))
        /\ trackPc[t] = "callback"
              => \E n \in 1 .. Len(enqLog[t]) :
                    trace[t] = SubSeq(ExpectedTrace(SubSeq(enqLog[t], 1, n)), 1,
                                      Len(ExpectedTrace(SubSeq(enqLog[t], 1, n))) - 1)
        /\ trackPc[t] \in {"reset", "done"}
              => \E n \in 0 .. Len(enqLog[t]) :
                    BeforeReset(trace[t]) = ExpectedTrace(SubSeq(enqLog[t], 1, n))

\* C4 witness: a track played the two messages of a list, called back, sent
\* the first message of the next list, and another track was reset.
C4_Witness ==
    \E t, u \in TrackIds :
        /\ Len(trace[t]) = 4
        /\ trace[t][3] = Called
        /\ trace[t][4].kind = "send"
        /\ trackPc[u] = "done"
        /\ Len(trace[u]) >= 3

\* C5 (as claimed): when the decision loop and all tracks have ended, every
\* completion event produced has been consumed exactly once.
C5_EveryEventConsumed ==
    (orchPc = "done" /\ \A t \in TrackIds : Terminated(t)) =>
        \A t \in TrackIds : consumed[t] = Produced(t)

\* C5 (amended): an event is consumed at most once and is otherwise still in
\* the shared queue; the events put before stop() began are the only ones
\* consumed, and all of them have been consumed when the loop returns.
C5_ConsumedOnceBeforeSentinel ==
    \A t \in TrackIds :
        /\ Produced(t) = consumed[t] + Count(callbackQueue, Some(<<t>>))
        /\ consumed[t] <= cbBefore[t]
        /\ orchPc = "done" => consumed[t] = cbBefore[t]

\* C5 witness: the loop has returned, one event of a track was consumed and
\* a later event of the same track stays in the queue.
C5_Witness ==
    \E t \in TrackIds :
        /\ orchPc = "done"
        /\ consumed[t] >= 1
        /\ Produced(t) > consumed[t]
        /\ Terminated(t)

\* C6: when beforeStart has returned and no track has been started, track 0
\* has index 0 and every other track index 1, and the queue of each track
\* holds exactly the pattern of that index when the index is in range; the
\* indices are still those when the decision loop is entered.
C6_InitialSeeding ==
    /\ (orchPc = "startTracks" /\ orchI = 0) =>
          \A t \in TrackIds :
              /\ trackPc[t] = "unstarted"
              /\ curPatterns[t] = IF t = 0 THEN 0 ELSE 1
              /\ ListsIn(msgQueue[t]) =
                    IF curPatterns[t] < Len(patterns)
                    THEN << queueMidi(patterns[curPatterns[t] + 1], tracks[t].channel) >>
                    ELSE << >>
    /\ (orchPc = "loop" /\ \A t \in TrackIds : consumed[t] = 0) =>
          \A t \in TrackIds : curPatterns[t] = IF t = 0 THEN 0 ELSE 1

\* C6 witness: two tracks seeded from a two-pattern library, none started.
C6_Witness ==
    /\ orchPc = "startTracks"
    /\ orchI = 0
    /\ NbTracks = 2
    /\ Len(patterns) = 2
    /\ \A t \in TrackIds : Len(msgQueue[t]) = 1

\* No unit of work of track t is outstanding: no list waits on its queue, it
\* plays none, and no completion event of it is pending.
RunsDry(t) ==
    /\ ListsIn(msgQueue[t]) = <<>>
    /\ trackPc[t] \notin {"play", "callback"}
    /\ Count(callbackQueue, Some(<<t>>)) = 0

\* C7: a step that stores an index >= the library size for track T puts
\* nothing on T's queue and raises nothing; a track with such an index has
\* no list queued or playing, so it blocks in get() until stop() is called.
C7_OverflowNoEnqueue ==
    /\ [][\A t \in DOMAIN curPatterns :
            (curPatterns'[t] # curPatterns[t] /\ curPatterns'[t] >= Len(patterns))
                => (msgQueue'[t] = msgQueue[t] /\ orchPc' # "crashed")]_vars
    /\ [](\A t \in DOMAIN curPatterns :
            curPatterns[t] >= Len(patterns) =>
                (RunsDry(t) /\ orchPc # "crashed"
                 /\ (trackPc[t] = "get" /\ ~stopCalled[t] => msgQueue[t] = <<>>)))

\* C7 witness: a step decision moved a started track to index = library
\* size; the track waits on its empty queue.
C7_Witness ==
    \E t \in TrackIds :
        /\ curPatterns[t] = Len(patterns)
        /\ consumed[t] >= 1
        /\ trackPc[t] = "get"
        /\ msgQueue[t] = <<>>
        /\ orchPc = "loop"

\* C8 (as claimed): a track that a step decision has moved to the library
\* size still gets step decisions; absent shutdown and send errors it must
\* then still have a list queued or playing or a completion event pending,
\* from which its next decision comes.
C8_StillAdvancing ==
    \A t \in TrackIds :
        (/\ curPatterns[t] >= Len(patterns)
         /\ consumed[t] >= 1
         /\ orchPc = "loop"
         /\ mainPc = "input"
         /\ trackPc[t] # "failed") => ~RunsDry(t)

\* C8 (amended): a stored index never exceeds the library size, and once it
\* has reached the library size it never changes again.
C8_IndexStopsAtLibrarySize ==
    /\ [](\A t \in DOMAIN curPatterns : curPatterns[t] <= Len(patterns))
    /\ [][\A t \in DOMAIN curPatterns :
            curPatterns[t] >= Len(patterns) => curPatterns'[t] = curPatterns[t]]_vars

\* C8 witness: after a step decision a track sits at index = library size
\* while track 0 has gone through another completion since.
C8_Witness ==
    \E t \in TrackIds :
        /\ t # 0
        /\ curPatterns[t] = Len(patterns)
        /\ consumed[t] >= 1
        /\ consumed[0] >= 1
        /\ RunsDry(t)
        /\ trackPc[t] = "get"


\* C3: when a track has dequeued the stop sentinel (it resets and ends), it
\* has sent every message of every list queued on it before stop() was first
\* called, in queueing order, each list followed by its callback.
C3_FifoDrain ==
    \A t \in TrackIds :
        trackPc[t] \in {"reset", "done"} =>
            /\ SendsOf(trace[t]) = Flatten(enqLog[t])
            /\ BeforeReset(trace[t]) = ExpectedTrace(enqLog[t])

\* C3 witness: two different lists [A, B] were queued, then stop(); the track
\* ended after sending the messages of both.
C3_Witness ==
    \E t \in TrackIds :
        /\ trackPc[t] = "done"
        /\ Len(enqLog[t]) = 2
        /\ enqLog[t][1] # enqLog[t][2]
        /\ Len(SendsOf(trace[t])) = 3


\* Some track other than u has died of an I/O error.
OtherFailed(u) == \E t \in TrackIds \ {u} : trackPc[t] = "failed"

\* A completion event of u is in the shared queue ahead of any sentinel, and
\* the decision loop has not returned.
AheadOfSentinel(u) ==
    \E i \in 1 .. Len(callbackQueue) :
        /\ orchPc \notin {"done", "crashed"}
        /\ callbackQueue[i] = Some(<<u>>)
        /\ \A j \in 1 .. (i - 1) : ~callbackQueue[j].none

\* C9: the step in which a track dies of an I/O error changes nothing but
\* that track's position; with another track dead, a track that plays a list
\* still gets to its callback (unless its own send fails), delivers the
\* completion event, and the decision loop consumes it and advances the track.
C9_TrackIsolation ==
    /\ [][\A t \in DOMAIN trackPc :
            (trackPc[t] # "failed" /\ trackPc'[t] = "failed") =>
                /\ \A u \in DOMAIN trackPc \ {t} : trackPc'[u] = trackPc[u]
                /\ UNCHANGED << msgQueue, msgList, callbackQueue, curPatterns,
                                orchVars, mainVars, objVars, consumed >>]_vars
    /\ \A u \in 0 .. MaxRequested :
          /\ (u \in TrackIds /\ OtherFailed(u) /\ trackPc[u] = "play")
                ~> (u \in TrackIds /\ trackPc[u] \in {"callback", "failed"})
          /\ (u \in TrackIds /\ OtherFailed(u) /\ trackPc[u] = "callback")
                ~> (u \in TrackIds /\ trackPc[u] = "get")
          /\ \A k \in 0 .. (MaxPlays + 2) :
                (u \in TrackIds /\ OtherFailed(u) /\ AheadOfSentinel(u)
                    /\ consumed[u] = k) ~> (u \in TrackIds /\ consumed[u] = k + 1)

\* C9 witness: one track is dead, another one plays a list after the decision
\* loop, still running, has advanced it.
C9_Witness ==
    \E t, u \in TrackIds :
        /\ t # u
        /\ trackPc[t] = "failed"
        /\ trackPc[u] = "play"
        /\ consumed[u] >= 1
        /\ orchPc = "loop"

\* Shutdown has completed: stop() was called on every track, every track and
\* the decision loop have ended, every opened port is closed.
AllStopped ==
    /\ mainPc = "done"
    /\ orchPc = "done"
    /\ \A t \in TrackIds : stopCalled[t] /\ Terminated(t)
    /\ \A p \in DOMAIN outports : outports[p].closed

\* C10: a shutdown requested while the decision loop runs (all tracks
\* started) leads to every track and the loop ended and every port closed;
\* a port is closed only when all the tracks bound to it have ended, so no
\* track sends or resets on a closed port.
C10_ShutdownFromRunning ==
    /\ (stopFrom = "loop") ~> AllStopped
    /\ [](\A t \in TrackIds : PortClosed(t) => Terminated(t))

\* C10 witness: shutdown from Running has completed with two tracks, one of
\* which played a list and was reset.
C10_Witness ==
    /\ stopFrom = "loop"
    /\ AllStopped
    /\ NbTracks = 2
    /\ \E t \in TrackIds : trackPc[t] = "done" /\ Len(trace[t]) >= 3

\* C11: the step that consumes a completion event of a track T other than 0
\* draws one value, for T only; T's index becomes current+1 when the value is
\* below the step threshold and stays current otherwise; T's queue grows by
\* at most one item; indices and queues of all other tracks are unchanged.
C11_StochasticAdvance ==
    [][\A T \in DOMAIN consumed \ {0} :
          consumed'[T] = consumed[T] + 1 =>
              /\ lastDraw'[T] \in {"below", "notBelow"}
              /\ curPatterns'[T] = IF lastDraw'[T] = "below"
                                    THEN curPatterns[T] + 1
                                    ELSE curPatterns[T]
              /\ \/ msgQueue'[T] = msgQueue[T]
                 \/ /\ Len(msgQueue'[T]) = Len(msgQueue[T]) + 1
                    /\ IsPrefix(msgQueue[T], msgQueue'[T])
                    /\ ~msgQueue'[T][Len(msgQueue'[T])].none
              /\ \A u \in DOMAIN consumed \ {T} :
                    /\ curPatterns'[u] = curPatterns[u]
                    /\ msgQueue'[u] = msgQueue[u]
                    /\ lastDraw'[u] = lastDraw[u]]_vars

\* C11 witness: a value not below the threshold was drawn for a track other
\* than 0, which keeps its index and has its pattern queued again.
C11_Witness ==
    \E T \in TrackIds \ {0} :
        /\ lastDraw[T] = "notBelow"
        /\ consumed[T] = 1
        /\ curPatterns[T] = 1
        /\ ListsIn(msgQueue[T]) =
              << queueMidi(patterns[2], tracks[T].channel) >>
        /\ orchPc = "loop"

\* C12: once seeded, track 0 keeps index 0; the step that consumes a
\* completion event of track 0 puts pattern 0, stamped with track 0's
\* channel, at the tail of track 0's queue and leaves its index at 0.
C12_TrackZeroRepeats ==
    /\ [](\A t \in DOMAIN curPatterns :
            (t = 0 /\ curPatterns[t] # NoneIdx) => curPatterns[t] = 0)
    /\ [][\A t \in DOMAIN consumed :
            (t = 0 /\ consumed'[t] = consumed[t] + 1) =>
                /\ curPatterns'[t] = 0
                /\ msgQueue'[t] =
                      Append(msgQueue[t],
                             Some(queueMidi(patterns[1], tracks[t].channel)))]_vars

\* C12 witness: track 0 completed pattern 0 and has it queued again, while a
\* draw below the threshold moved another track on.
C12_Witness ==
    \E u \in TrackIds \ {0} :
        /\ consumed[0] >= 1
        /\ curPatterns[0] = 0
        /\ ListsIn(msgQueue[0]) = << queueMidi(patterns[1], tracks[0].channel) >>
        /\ lastDraw[u] = "below"
        /\ curPatterns[u] = 2

\* The messages of the lists waiting on a queue, in order.
QueuedMessages(q) == Flatten(ListsIn(q))

C14_StopIdempotent ==
    /\ [](\A t \in TrackIds :
            /\ Count(trace[t], ResetDone) <= 1
            /\ trackPc[t] = "done" =>
                  trace[t] = ExpectedTrace(enqLog[t]) \o << ResetDone >>)
    /\ [][\A t \in DOMAIN trackPc :
            /\ trackPc[t] = "done" => (trackPc'[t] = "done" /\ trace'[t] = trace[t])
            /\ NbStops(t) < NbStops(t)' => trackPc' = trackPc]_vars

\* C14 witness: stop() was called twice on a track that had a list queued;
\* the track has ended and the second sentinel is still on its queue.
C14_Witness ==
    \E t \in TrackIds :
        /\ trackPc[t] = "done"
        /\ NbStops(t) = 2
        /\ Len(enqLog[t]) >= 1
        /\ msgQueue[t] # <<>>
        /\ msgQueue[t][1].none

\* C15 (as claimed): after a shutdown requested while the decision loop
\* runs, no track that has ended at its sentinel is left with a list on its
\* queue.
C15_NoUnplayedPattern ==
    stopFrom = "loop" =>
        \A t \in TrackIds : trackPc[t] = "done" => ListsIn(msgQueue[t]) = <<>>

\* C15 (amended): a track that has taken its sentinel has sent every message
\* of every list put on its queue before stop() was called on it and has
\* delivered one completion event for each; what it leaves on its queue was
\* put there after that stop().
C15_DrainsWhatPrecedesStop ==
    \A t \in TrackIds :
        trackPc[t] \in {"reset", "done"} =>
            /\ stopCalled[t]
            /\ SendsOf(trace[t]) = Flatten(enqLog[t])
            /\ Produced(t) = Len(enqLog[t])

\* C15 witness: after a shutdown from the decision loop a track has played
\* its seed list and ended, and a list the loop queued after stop() is left.
C15_Witness ==
    \E t \in TrackIds :
        /\ stopFrom = "loop"
        /\ trackPc[t] = "done"
        /\ Len(enqLog[t]) = 1
        /\ Len(SendsOf(trace[t])) >= 1
        /\ Produced(t) = 1
        /\ Len(ListsIn(msgQueue[t])) = 1

\* ------------------------------------------------------------ natural order
RECURSIVE RunOf(_, _)
\* The longest prefix of s made of digits only (d) or of no digit (~d).
RunOf(s, d) ==
    IF s = <<>> \/ isdigit(Head(s)) # d THEN <<>>
    ELSE << Head(s) >> \o RunOf(Tail(s), d)

RECURSIVE Runs(_)
\* A name cut into its maximal numeric and non-numeric runs.
Runs(s) ==
    IF s = <<>> THEN <<>>
    ELSE LET run == RunOf(s, isdigit(Head(s)))
         IN  << run >> \o Runs(SubSeq(s, Len(run) + 1, Len(s)))

\* Two runs that the natural order does not tell apart.
RunSame(x, y) ==
    /\ IsDigitText(x) = IsDigitText(y)
    /\ IF IsDigitText(x) THEN IntOf(x) = IntOf(y) ELSE lower(x) = lower(y)

\* Run x sorts before run y: by value for two numeric runs, ignoring case
\* for two non-numeric runs, and a numeric run before a non-numeric one.
RunBefore(x, y) ==
    IF IsDigitText(x) /\ IsDigitText(y) THEN IntOf(x) < IntOf(y)
    ELSE IF ~IsDigitText(x) /\ ~IsDigitText(y) THEN StrLess(lower(x), lower(y))
    ELSE IsDigitText(x)

\* Name a comes strictly before name b in the natural order: the first runs
\* that differ decide, and a name that is the beginning of another comes first.
NaturalBefore(a, b) ==
    LET ra == Runs(a)
        rb == Runs(b)
        n == IF Len(ra) <= Len(rb) THEN Len(ra) ELSE Len(rb)
        d == {i \in 1 .. n : ~RunSame(ra[i], rb[i])}
    IN  IF d = {} THEN Len(ra) < Len(rb)
        ELSE RunBefore(ra[CHOOSE i \in d : \A j \in d : i <= j],
                       rb[CHOOSE i \in d : \A j \in d : i <= j])

\* C16: construction from a non-empty directory raises nothing; the sorted
\* file names are the directory's files, none placed after a file that it
\* precedes in the natural order; pattern k is the file at position k; the
\* directory p2, p10, p1 is ordered p1, p2, p10.
C16_NaturalSort ==
    (mainPc # "construct" /\ nbOfTracks >= 1 /\ listdir # <<>>) =>
        /\ mainPc # "error"
        /\ Len(sortedFilenames) = Len(listdir)
        /\ \A i \in 1 .. Len(listdir) :
              \E j \in 1 .. Len(sortedFilenames) :
                  sortedFilenames[j] = << "/" >> \o listdir[i]
        /\ \A i, j \in 1 .. Len(sortedFilenames) :
              i < j => ~NaturalBefore(Tail(sortedFilenames[j]),
                                      Tail(sortedFilenames[i]))
        /\ Len(patterns) = Len(sortedFilenames)
        /\ \A k \in 1 .. Len(sortedFilenames) :
              patterns[k] = MidiFileAt(sortedFilenames[k])
        /\ listdir = << << "p", "2" >>, << "p", "1", "0" >>, << "p", "1" >> >>
              => sortedFilenames = << << "/", "p", "1" >>, << "/", "p", "2" >>,
                                      << "/", "p", "1", "0" >> >>

\* C16 witness: the directory p2, p10, p1 has been loaded; pattern 2 is the
\* file p10.
C16_Witness ==
    /\ Constructed
    /\ listdir = << << "p", "2" >>, << "p", "1", "0" >>, << "p", "1" >> >>
    /\ sortedFilenames[3] = << "/", "p", "1", "0" >>
    /\ patterns[3] = MidiFile(10)

\* Units of work of track t outstanding: lists waiting on its queue, the
\* list it is playing (until its callback has put the completion event), and
\* its completion events in the shared queue.
Outstanding(t) ==
    Len(ListsIn(msgQueue[t]))
    + (IF trackPc[t] \in {"play", "callback"} THEN 1 ELSE 0)
    + Count(callbackQueue, Some(<<t>>))

\* C17: every track has at most one unit of work outstanding; so its queue
\* holds at most one list and the shared queue at most one of its events.
C17_OneOutstandingUnit ==
    \A t \in TrackIds :
        /\ Outstanding(t) <= 1
        /\ Len(ListsIn(msgQueue[t])) <= 1
        /\ Count(callbackQueue, Some(<<t>>)) <= 1

\* C17 witness: the decision loop has advanced two tracks; the completion
\* event of one waits in the shared queue while the other plays its list.
C17_Witness ==
    \E t, u \in TrackIds :
        /\ t # u
        /\ consumed[t] >= 1
        /\ consumed[u] >= 1
        /\ Count(callbackQueue, Some(<<t>>)) = 1
        /\ trackPc[u] = "play"

\* C18 (as claimed): whenever stop() begins after orchestra.start(), also
\* while the orchestra thread is still seeding or starting the tracks, it
\* raises nothing: no join() is called on a track that was not started.
C18_OrderlyShutdownAnyPoint ==
    stopFrom # "none" => mainPc # "error"

\* C19 (as claimed): the shortfall message has been printed by a completed
\* construction exactly when fewer tracks were created than requested.
C19_ShortfallIffFewer ==
    Constructed => (shortfallPrinted <=> NbTracks < nbOfTracks)

\* ------------------------------------------------------------------ timing
RECURSIVE SumTimes(_)
\* Sum of the delta times of a sequence of messages.
SumTimes(msgs) ==
    IF msgs = <<>> THEN 0 ELSE Head(msgs).time + SumTimes(Tail(msgs))

RECURSIVE SoundingAt(_, _)
\* Position in the source pattern of its i-th message that is not meta.
SoundingAt(midi, i) ==
    IF is_meta(midi[Len(midi)]) \/ Len(NotMeta(midi)) > i
    THEN SoundingAt(SubSeq(midi, 1, Len(midi) - 1), i)
    ELSE Len(midi)

\* The messages track t has sent; the time of each is what run() slept
\* right before sending it.
DelaysOf(t) == SendsOf(trace[t])

\* C20 (as claimed): while a track plays the pattern it was seeded with, the
\* time it has slept when it emits the i-th sounding event is the cumulative
\* time of that event in the source pattern, and the time it has slept when
\* it signals completion is the duration of the source pattern.
C20_TimingPreserved ==
    \A t \in TrackIds :
        (curPatterns[t] # NoneIdx /\ SeedIndex(t) < Len(patterns)) =>
            LET midi == patterns[SeedIndex(t) + 1]
                n == Len(NotMeta(midi))
                sent == DelaysOf(t)
            IN  /\ \A i \in 1 .. n :
                      i <= Len(sent) =>
                          SumTimes(SubSeq(sent, 1, i))
                              = SumTimes(SubSeq(midi, 1, SoundingAt(midi, i)))
                /\ Produced(t) >= 1 =>
                      SumTimes(SubSeq(sent, 1, n)) = SumTimes(midi)

====
